---- MODULE Spec2Model ----
(***************************************************************************)
(* AutoAuthSession (src/wqb/auto_auth_session.py): a requests.Session      *)
(* whose request() retries until a success predicate accepts the response, *)
(* re-authenticates through auth_request() on a rejected 401 and honours   *)
(* Retry-After on a rejected 429.                                          *)
(*                                                                         *)
(* Each caller thread owns a call stack of frames: the frame of request()  *)
(* or auth_request() it called and, above it, the frame of the nested     *)
(* auth_request() a rejected 401 starts.  A frame holds the function's     *)
(* local variables, its position (pc) and history fields that record what  *)
(* the frame did (transport calls, sleeps, diagnostics).  The transport    *)
(* (super().request), the server behind it and time.sleep are the          *)
(* environment: the transport returns any response of the server's         *)
(* repertoire; time.sleep behaves as CPython's does.                       *)
(***************************************************************************)
EXTENDS Integers, Sequences, FiniteSets, TLC

VARIABLES
    ctor,       \* the constructor's arguments, as supplied (history)
    session,    \* the attributes __init__ stores on self
    server,     \* the kind of server behind the transport (environment)
    workload,   \* per thread: the kind of calls its caller makes (environment)
    status,     \* per thread: "off", "idle", "running", "returned", "raised"
    stack,      \* per thread: the frames of the calls in progress, outermost first
    nsent,      \* per thread: transport invocations made since its call began
    result      \* per thread: the response its last call returned

vars == <<ctor, session, server, workload, status, stack, nsent, result>>

(***************************************************************************)
(* Bounds of the model.                                                    *)
(***************************************************************************)
\* the largest attempt limit a caller supplies
MaxTries == 2

Threads == {1, 2}

(***************************************************************************)
(* Optional values: None, or a value given.                                *)
(***************************************************************************)
None == <<>>

Some(x) == <<x>>

Get(o) == o[1]

(***************************************************************************)
(* Input domains.                                                          *)
(***************************************************************************)
\* attempt limits a caller may supply: negative, zero, 1..MaxTries
TriesIn == (-1) .. MaxTries

\* fixed delays a caller may supply (seconds): negative, positive
DelayIn == {-1, 2}

\* success predicates: the default  lambda _: True,  and  r.status_code == 200
Preds == {"AcceptAll", "Is200"}

\* keyword transport options: a dict is a function on its keys
KwargsIn == { <<>>, [timeout |-> 9], [data |-> "other"] }

SessionKwargsIn == { [data |-> "cred"] }

MethodsIn == {"GET"}

UrlsIn == {"/data"}

LogsIn == {"tag"}

\* the values of the Retry-After header the model knows
RetryAfterValues == {"5", "0", "soon", "", "-1", "nan", "inf", "1e30"}

Statuses == {200, 401, 429, 503}

\* what a server sends: any status without the header, 429 with each header
\* value of hdrs, and 503 with a Retry-After the client must not read
Replies(hdrs) ==
    { [status_code |-> s, retry_after |-> None] : s \in Statuses }
    \cup { [status_code |-> 429, retry_after |-> Some(h)] : h \in hdrs }
    \cup { [status_code |-> 503, retry_after |-> Some(h)] : h \in hdrs \cap {"5"} }

(***************************************************************************)
(* Pure functions of the code.                                             *)
(***************************************************************************)
Max(a, b) == IF a >= b THEN a ELSE b

\* (a slip: the attempt limit used as given)
NoClampTries(n) == n

\* max(1, max_tries)
ClampTries(n) == Max(1, n)

\* max(0.0, delay_unexpected)
ClampDelay(d) == Max(0, d)

\* if x is None: x = self.<default>
Resolve(override, default) == IF override = None THEN default ELSE Get(override)

\* (a slip: {**kwargs, **self.kwargs}, the session's value winning)
MergeKwargsSessionWins(base, over) ==
    [k \in (DOMAIN base) \cup (DOMAIN over) |->
        IF k \in DOMAIN base THEN base[k] ELSE over[k]]

\* {**self.kwargs, **kwargs}: the keys of both, the right operand winning
MergeKwargs(base, over) ==
    [k \in (DOMAIN base) \cup (DOMAIN over) |->
        IF k \in DOMAIN over THEN over[k] ELSE base[k]]

\* expected(resp)
Expected(p, resp) ==
    IF p = "AcceptAll" THEN TRUE ELSE resp.status_code = 200

\* a float: a finite value (whole seconds here), a finite value beyond what
\* time_t holds ("huge"), inf, nan; "error" is float() raising ValueError
Num(v) == [kind |-> "finite", val |-> v]

Float(s) ==
    CASE s = "5"    -> Num(5)
      [] s = "0"    -> Num(0)
      [] s = "-1"   -> Num(-1)
      [] s = "1e30" -> [kind |-> "huge", val |-> 0]
      [] s = "inf"  -> [kind |-> "inf", val |-> 0]
      [] s = "nan"  -> [kind |-> "nan", val |-> 0]
      [] OTHER      -> [kind |-> "error", val |-> 0]

\* time.sleep(x): sleeps, or raises ValueError (negative, nan) or
\* OverflowError (inf, or too large for time_t)
TimeSleep(x) ==
    CASE x.kind = "finite" /\ x.val >= 0 -> "slept"
      [] x.kind = "finite" /\ x.val < 0  -> "ValueError"
      [] x.kind = "nan"                  -> "ValueError"
      [] OTHER                           -> "OverflowError"

(***************************************************************************)
(* The constructor.                                                        *)
(***************************************************************************)
\* __init__: the ordinary pair is clamped, the authentication pair is stored
\* as given
InitSession(c) ==
    [ method                |-> c.method,
      url                   |-> c.url,
      kwargs                |-> c.kwargs,
      auth_expected         |-> c.auth_expected,
      auth_max_tries        |-> c.auth_max_tries,
      auth_delay_unexpected |-> c.auth_delay_unexpected,
      expected              |-> c.expected,
      max_tries             |-> Max(1, c.max_tries),
      delay_unexpected      |-> Max(0, c.delay_unexpected) ]

(***************************************************************************)
(* Frames.                                                                 *)
(***************************************************************************)
\* resp = Response(): no status yet
BlankResponse == [status_code |-> 0, retry_after |-> None, id |-> 0]

\* a frame as a call reaches its for statement: the resolved locals, tries = 0
\* and empty history; range(1, 1 + max_tries) is empty when max_tries < 1
NewFrame(fn, a, method, url, kwargs, expected, max_tries, delay_unexpected) ==
    [ fn               |-> fn,
      method           |-> method,
      url              |-> url,
      kwargs           |-> kwargs,
      expected         |-> expected,
      max_tries        |-> max_tries,
      delay_unexpected |-> delay_unexpected,
      log              |-> a.log,
      tries            |-> 0,
      resp             |-> BlankResponse,
      pc               |-> IF max_tries >= 1 THEN "loop" ELSE "else",
      sleep_arg        |-> Num(0),
      in_try           |-> FALSE,
      \* history
      given            |-> a,        \* the call's arguments as supplied
      sends            |-> 0,        \* transport invocations made
      wire             |-> {},       \* the request descriptors handed to the transport
      own              |-> 0,        \* id of the last response to its own request
      n401             |-> 0,        \* rejected responses with status 401
      n429             |-> 0,        \* rejected responses with status 429
      accepted         |-> FALSE,    \* the predicate accepted a response
      nslept           |-> 0,        \* sleeps completed
      since            |-> <<>>,     \* events since its last transport call
      auths            |-> 0,        \* nested authentication cycles started
      out              |-> <<>>,     \* diagnostics emitted
      exc              |-> None,     \* the exception that ended it
      ret              |-> None ]    \* the response it returns

\* auth_request, lines 64-79: the resolution of its arguments
AuthTries(s, a) == ClampTries(Resolve(a.max_tries, s.auth_max_tries))

AuthDelay(s, a) == ClampDelay(Resolve(a.delay_unexpected, s.auth_delay_unexpected))

AuthFrame(s, a) ==
    NewFrame("auth_request", a,
             Resolve(a.method, s.method),
             Resolve(a.url, s.url),
             MergeKwargs(s.kwargs, a.kwargs),
             Resolve(a.expected, s.auth_expected),
             AuthTries(s, a),
             AuthDelay(s, a))

\* request, lines 131-140: the resolution of its arguments
RequestTries(s, a) == ClampTries(Resolve(a.max_tries, s.max_tries))

RequestDelay(s, a) == ClampDelay(Resolve(a.delay_unexpected, s.delay_unexpected))

RequestFrame(s, a) ==
    NewFrame("request", a,
             Get(a.method),
             Get(a.url),
             a.kwargs,
             Resolve(a.expected, s.expected),
             RequestTries(s, a),
             RequestDelay(s, a))

\* (a slip: the resolved values are stored on self)
SessionStoresOverrides(s, a) ==
    IF a.fn = "request"
    THEN [s EXCEPT !.expected = Resolve(a.expected, @),
                   !.max_tries = Max(1, Resolve(a.max_tries, @)),
                   !.delay_unexpected = Max(0, Resolve(a.delay_unexpected, @))]
    ELSE [s EXCEPT !.kwargs = MergeKwargs(@, a.kwargs),
                   !.auth_expected = Resolve(a.expected, @),
                   !.auth_max_tries = Max(1, Resolve(a.max_tries, @)),
                   !.auth_delay_unexpected = Max(0, Resolve(a.delay_unexpected, @))]

\* lines 64-77 and 131-138 assign parameters and locals only, and
\* {**self.kwargs, **kwargs} builds a new dict: self is as it was
SessionAfterCall(s, a) == s

\* self.auth_request(): no argument given
NoArguments ==
    [ fn |-> "auth_request", method |-> None, url |-> None, kwargs |-> <<>>,
      expected |-> None, max_tries |-> None, delay_unexpected |-> None,
      log |-> None ]

\* (a slip: the outer call's policy and kwargs are handed down)
NestedInheritsPolicy(outer) ==
    [NoArguments EXCEPT !.kwargs = outer.kwargs,
                        !.expected = Some(outer.expected),
                        !.max_tries = Some(outer.max_tries),
                        !.delay_unexpected = Some(outer.delay_unexpected)]

\* line 148, self.auth_request(): what request hands to the nested call
NestedArguments(outer) == NoArguments

(***************************************************************************)
(* The loop body after the transport call.                                 *)
(***************************************************************************)
\* (a slip: one iteration too many)
MoreTriesOffByOne(f) == f.tries <= f.max_tries

\* for tries in range(1, 1 + max_tries): another iteration follows
MoreTries(f) == f.tries < f.max_tries

\* (a slip: the break is missing)
BreaksNever(f, resp) == FALSE

\* if expected(resp): break
Breaks(f, resp) == Expected(f.expected, resp)

\* (a slip: auth_request re-authenticates on a 401 as well)
ReauthenticatesEverywhere(f, resp) == resp.status_code = 401

\* (a slip: no re-authentication after the final attempt)
ReauthenticatesNotOnLast(f, resp) ==
    f.fn = "request" /\ resp.status_code = 401 /\ f.tries + 1 < f.max_tries

\* request, line 146: a rejected 401 re-authenticates; auth_request has no
\* such branch
Reauthenticates(f, resp) == f.fn = "request" /\ resp.status_code = 401

\* (a slip: Retry-After is never read)
SleepPlanFixedOnly(f, resp) ==
    [arg |-> Num(f.delay_unexpected), in_try |-> FALSE]

\* (a slip: without a usable Retry-After a 429 is not waited for)
SleepPlanZeroFallback(f, resp) ==
    IF resp.status_code = 429
    THEN IF resp.retry_after # None /\ Float(Get(resp.retry_after)).kind # "error"
         THEN [arg |-> Float(Get(resp.retry_after)), in_try |-> TRUE]
         ELSE [arg |-> Num(0), in_try |-> FALSE]
    ELSE [arg |-> Num(f.delay_unexpected), in_try |-> FALSE]

\* (a slip: auth_request without the handling of 429)
AuthSleepPlanNoRetryAfter(f, resp) ==
    [arg |-> Num(f.delay_unexpected), in_try |-> FALSE]

\* auth_request, lines 85-95: the argument of the sleep a rejected response
\* leads to, and whether that sleep is inside the try
AuthSleepPlan(f, resp) ==
    IF resp.status_code = 429
    THEN IF resp.retry_after # None
         THEN LET x == Float(Get(resp.retry_after))
              IN  IF x.kind = "error"
                  THEN [arg |-> Num(f.delay_unexpected), in_try |-> FALSE]
                  ELSE [arg |-> x, in_try |-> TRUE]
         ELSE [arg |-> Num(f.delay_unexpected), in_try |-> TRUE]
    ELSE [arg |-> Num(f.delay_unexpected), in_try |-> FALSE]

\* request, lines 150-161: the same for the branches after the 401 branch
RequestSleepPlan(f, resp) ==
    IF resp.status_code = 429
    THEN IF resp.retry_after # None
         THEN LET x == Float(Get(resp.retry_after))
              IN  IF x.kind = "error"
                  THEN [arg |-> Num(f.delay_unexpected), in_try |-> FALSE]
                  ELSE [arg |-> x, in_try |-> TRUE]
         ELSE [arg |-> Num(f.delay_unexpected), in_try |-> TRUE]
    ELSE [arg |-> Num(f.delay_unexpected), in_try |-> FALSE]

\* the sleep plan of the function the frame runs
SleepPlan(f, resp) ==
    IF f.fn = "request" THEN RequestSleepPlan(f, resp) ELSE AuthSleepPlan(f, resp)

\* the sleep statement: time.sleep(arg), and inside the try a ValueError
\* leads to time.sleep(delay_unexpected); the durations slept and the
\* exception that escapes
SleepStatement(f) ==
    LET first == TimeSleep(f.sleep_arg)
        again == TimeSleep(Num(f.delay_unexpected))
    IN  CASE first = "slept" ->
                [durations |-> <<f.sleep_arg.val>>, exc |-> None]
          [] first = "ValueError" /\ f.in_try /\ again = "slept" ->
                [durations |-> <<f.delay_unexpected>>, exc |-> None]
          [] first = "ValueError" /\ f.in_try ->
                [durations |-> <<>>, exc |-> Some(again)]
          [] OTHER ->
                [durations |-> <<>>, exc |-> Some(first)]

\* the position after a sleep: the next iteration, or the loop's else
AfterSleep(f) == IF MoreTries(f) THEN "loop" ELSE "else"

\* lines 96-117 and 162-183: the diagnostics after the loop
Warning == [level |-> "warning", tries |-> 0]

Info(n) == [level |-> "info", tries |-> n]

Diagnostics(f) ==
    (IF f.pc = "else" THEN <<Warning>> ELSE <<>>)
    \o (IF f.log # None THEN <<Info(f.tries)>> ELSE <<>>)

\* events of a frame's history
SleepEvent(d) == [ev |-> "sleep", d |-> d]

AuthEvent == [ev |-> "auth", d |-> 0]

\* what the transport is handed: method, url, **kwargs
Descriptor(f) == [method |-> f.method, url |-> f.url, kwargs |-> f.kwargs]

\* one iteration up to its next blocking call: the transport has returned
\* resp for attempt tries + 1; the predicate accepts it (break), or the frame
\* goes on to re-authenticate or to sleep
Receive(f, resp) ==
    LET ok == Expected(f.expected, resp)
        g == [f EXCEPT !.tries = @ + 1,
                       !.resp  = resp,
                       !.sends = @ + 1,
                       !.wire  = @ \cup {Descriptor(f)},
                       !.own   = resp.id,
                       !.accepted = ok,
                       !.n401  = IF ~ok /\ resp.status_code = 401 THEN @ + 1 ELSE @,
                       !.n429  = IF ~ok /\ resp.status_code = 429 THEN @ + 1 ELSE @,
                       !.since = <<>>]
    IN  IF Breaks(f, resp)
        THEN [g EXCEPT !.pc = "end"]
        ELSE IF Reauthenticates(f, resp)
        THEN [g EXCEPT !.pc = "auth",
                       !.auths = @ + 1]
        ELSE [g EXCEPT !.pc = "sleep",
                       !.sleep_arg = SleepPlan(f, resp).arg,
                       !.in_try = SleepPlan(f, resp).in_try]

\* the frame after its sleep statement completed
Slept(f) ==
    [f EXCEPT !.nslept = @ + Len(SleepStatement(f).durations),
              !.since = @ \o <<SleepEvent(SleepStatement(f).durations[1])>>,
              !.pc    = AfterSleep(f)]

\* the frame after the code that follows the loop: warning, info, return resp
Finished(f) ==
    [f EXCEPT !.out = Diagnostics(f), !.ret = Some(f.resp), !.pc = "ret"]

\* (a slip: no sleep after re-authenticating)
ResumedNoSleep(outer, nested) ==
    [outer EXCEPT !.since = @ \o <<[ev |-> "auth", d |-> 0]>>,
                  !.pc = IF outer.tries < outer.max_tries THEN "loop" ELSE "else"]

\* request, lines 148-149: auth_request() has returned (its value is dropped)
\* and the caller goes on to time.sleep(delay_unexpected)
Resumed(outer, nested) ==
    [outer EXCEPT !.since = @ \o <<AuthEvent>>,
                  !.pc = "sleep",
                  !.sleep_arg = Num(outer.delay_unexpected),
                  !.in_try = FALSE]

\* an exception leaves every frame of the stack: nothing catches it
Unwound(frames, e) ==
    [i \in 1 .. Len(frames) |-> [frames[i] EXCEPT !.exc = Some(e), !.pc = "raised"]]

(***************************************************************************)
(* What callers do.                                                        *)
(***************************************************************************)
Differ(a, b) == { k \in DOMAIN a : a[k] # b[k] }

BaseCtor ==
    [ method |-> "POST", url |-> "/authentication", kwargs |-> [data |-> "cred"],
      auth_expected |-> "Is200", auth_max_tries |-> MaxTries,
      auth_delay_unexpected |-> 2,
      expected |-> "Is200", max_tries |-> MaxTries, delay_unexpected |-> 2 ]

AllCtors ==
    [ method : {"POST"}, url : {"/authentication"}, kwargs : SessionKwargsIn,
      auth_expected : Preds, auth_max_tries : TriesIn,
      auth_delay_unexpected : DelayIn,
      expected : Preds, max_tries : TriesIn, delay_unexpected : DelayIn ]

\* the constructions considered: at most one argument away from BaseCtor
Constructions == { c \in AllCtors : Cardinality(Differ(c, BaseCtor)) <= 1 }

Opt(S) == {None} \cup { Some(x) : x \in S }

BaseCall(fn) ==
    IF fn = "request"
    THEN [NoArguments EXCEPT !.fn = fn, !.method = Some("GET"), !.url = Some("/data")]
    ELSE NoArguments

AllCalls ==
    [ fn : {"request"}, method : { Some(m) : m \in MethodsIn },
      url : { Some(u) : u \in UrlsIn }, kwargs : KwargsIn,
      expected : Opt(Preds), max_tries : Opt(TriesIn),
      delay_unexpected : Opt(DelayIn), log : Opt(LogsIn) ]
    \cup
    [ fn : {"auth_request"}, method : Opt(MethodsIn), url : Opt(UrlsIn),
      kwargs : KwargsIn,
      expected : Opt(Preds), max_tries : Opt(TriesIn),
      delay_unexpected : Opt(DelayIn), log : Opt(LogsIn) ]

\* the calls considered: at most one argument away from the plain call
Calls == { a \in AllCalls : Cardinality(Differ(a, BaseCall(a.fn))) <= 1 }

\* what a caller of each kind may call
CallsOf(w) ==
    CASE w = "any"   -> Calls
      [] w = "plain" -> { BaseCall("request"), BaseCall("auth_request") }
      [] OTHER       -> {}

\* the Retry-After values the usual server sends
SpecHeaders == {"5", "soon", "inf"}

\* what a server of each kind may answer
Repertoire(kind) ==
    CASE kind = "usual" -> Replies(SpecHeaders)
      [] kind = "terse" -> { r \in Replies({}) : r.status_code \in {200, 401} }
      [] OTHER          -> Replies({})

(***************************************************************************)
(* The state machine.                                                      *)
(***************************************************************************)
Top(t) == stack[t][Len(stack[t])]

Init ==
    /\ ctor \in Constructions
    /\ session = InitSession(ctor)
    /\ server = "usual"
    /\ workload = [t \in Threads |-> IF t = 1 THEN "any" ELSE "none"]
    /\ status = [t \in Threads |-> IF t = 1 THEN "idle" ELSE "off"]
    /\ stack = [t \in Threads |-> <<>>]
    /\ nsent = [t \in Threads |-> 0]
    /\ result = [t \in Threads |-> None]

\* a caller calls request(method, url, ...)
CallRequest(t) ==
    /\ status[t] = "idle"
    /\ \E a \in CallsOf(workload[t]) :
          /\ a.fn = "request"
          /\ stack' = [stack EXCEPT ![t] = <<RequestFrame(session, a)>>]
          /\ session' = SessionAfterCall(session, a)
    /\ status' = [status EXCEPT ![t] = "running"]
    /\ UNCHANGED <<ctor, server, workload, nsent, result>>

\* a caller calls auth_request(...)
CallAuthRequest(t) ==
    /\ status[t] = "idle"
    /\ \E a \in CallsOf(workload[t]) :
          /\ a.fn = "auth_request"
          /\ stack' = [stack EXCEPT ![t] = <<AuthFrame(session, a)>>]
          /\ session' = SessionAfterCall(session, a)
    /\ status' = [status EXCEPT ![t] = "running"]
    /\ UNCHANGED <<ctor, server, workload, nsent, result>>

\* (a slip: the attempt counter kept on the session, shared by all callers)
TransportSharedTries(t) ==
    /\ status[t] = "running"
    /\ Top(t).pc = "loop"
    /\ \E r \in Repertoire(server) :
          LET resp == [status_code |-> r.status_code,
                       retry_after |-> r.retry_after,
                       id |-> nsent[t] + 1]
              shared == CHOOSE m \in 0 .. (MaxTries + 1) :
                           /\ \E u \in Threads : stack[u] # <<>> /\ Top(u).tries = m
                           /\ \A u \in Threads : stack[u] # <<>> => Top(u).tries <= m
              f == Receive([Top(t) EXCEPT !.tries = shared], resp)
              n == Len(stack[t])
          IN  /\ stack' = [stack EXCEPT ![t] =
                     IF f.pc = "auth"
                     THEN [@ EXCEPT ![n] = f] \o <<AuthFrame(session, NestedArguments(f))>>
                     ELSE [@ EXCEPT ![n] = f]]
              /\ session' = session
    /\ nsent' = [nsent EXCEPT ![t] = @ + 1]
    /\ UNCHANGED <<ctor, server, workload, status, result>>

\* resp = super().request(method, url, *args, **kwargs), and the loop body up
\* to its next blocking call; a rejected 401 in request enters auth_request()
Transport(t) ==
    /\ status[t] = "running"
    /\ Top(t).pc = "loop"
    /\ \E r \in Repertoire(server) :
          LET resp == [status_code |-> r.status_code,
                       retry_after |-> r.retry_after,
                       id |-> nsent[t] + 1]
              f == Receive(Top(t), resp)
              n == Len(stack[t])
          IN  /\ stack' = [stack EXCEPT ![t] =
                     IF f.pc = "auth"
                     THEN [@ EXCEPT ![n] = f] \o <<AuthFrame(session, NestedArguments(f))>>
                     ELSE [@ EXCEPT ![n] = f]]
              /\ session' = IF f.pc = "auth"
                            THEN SessionAfterCall(session, NestedArguments(f))
                            ELSE session
    /\ nsent' = [nsent EXCEPT ![t] = @ + 1]
    /\ UNCHANGED <<ctor, server, workload, status, result>>

\* the sleep statement of the loop body: it completes, or an exception escapes
Sleep(t) ==
    /\ status[t] = "running"
    /\ Top(t).pc = "sleep"
    /\ LET f == Top(t)
           n == Len(stack[t])
       IN  IF SleepStatement(f).exc = None
           THEN /\ stack' = [stack EXCEPT ![t][n] = Slept(f)]
                /\ UNCHANGED status
           ELSE /\ stack' = [stack EXCEPT ![t] = Unwound(@, Get(SleepStatement(f).exc))]
                /\ status' = [status EXCEPT ![t] = "raised"]
    /\ UNCHANGED <<ctor, session, server, workload, nsent, result>>

\* the code after the loop: the warning of the for-else, the info, return resp
Finish(t) ==
    /\ status[t] = "running"
    /\ Top(t).pc \in {"end", "else"}
    /\ stack' = [stack EXCEPT ![t][Len(stack[t])] = Finished(Top(t))]
    /\ UNCHANGED <<ctor, session, server, workload, status, nsent, result>>

\* the call returns: to the caller, or to the request() that started it
Return(t) ==
    /\ status[t] = "running"
    /\ Top(t).pc = "ret"
    /\ LET n == Len(stack[t])
       IN  IF n = 1
           THEN /\ status' = [status EXCEPT ![t] = "returned"]
                /\ result' = [result EXCEPT ![t] = Top(t).ret]
                /\ stack' = [stack EXCEPT ![t][1].pc = "done"]
           ELSE /\ stack' = [stack EXCEPT ![t] =
                       SubSeq(@, 1, n - 2) \o <<Resumed(@[n - 1], @[n])>>]
                /\ UNCHANGED <<status, result>>
    /\ UNCHANGED <<ctor, session, server, workload, nsent>>

Next ==
    \E t \in Threads :
        \/ CallRequest(t)
        \/ CallAuthRequest(t)
        \/ Transport(t)
        \/ Sleep(t)
        \/ Finish(t)
        \/ Return(t)

Spec == Init /\ [][Next]_vars

\* every call is scheduled until it ends and every transport call returns:
\* a step that can be taken is taken
FairSpec == Spec /\ WF_vars(Next)

\* two callers share one client: each calls request or auth_request once,
\* with no override, and their steps interleave (the class takes no lock);
\* the server answers 200 or 401
InitTwoCallers ==
    /\ ctor = BaseCtor
    /\ session = InitSession(ctor)
    /\ server = "terse"
    /\ workload = [t \in Threads |-> "plain"]
    /\ status = [t \in Threads |-> "idle"]
    /\ stack = [t \in Threads |-> <<>>]
    /\ nsent = [t \in Threads |-> 0]
    /\ result = [t \in Threads |-> None]

SpecTwoCallers == InitTwoCallers /\ [][Next]_vars

(***************************************************************************)
(* Properties.                                                             *)
(***************************************************************************)
\* the positions of the frames in progress
Positions == { <<t, i>> \in Threads \X (1 .. (MaxTries + 2)) : i <= Len(stack[t]) }

FrameAt(p) == stack[p[1]][p[2]]

IsTop(p) == p[2] = Len(stack[p[1]])

\* the call is over: it is about to return, has returned, or has raised
Ended(f) == f.pc \in {"ret", "done", "raised"}

\* the frame's latest response was rejected by its predicate
Rejected(f) == f.tries >= 1 /\ ~Expected(f.expected, f.resp)

\* the frame is past the sleep that follows its latest response
PastSleep(f) == f.pc \in {"loop", "else", "ret", "done"}

\* the parsed Retry-After of a response that carries one
RetryAfter(resp) == Float(Get(resp.retry_after))

CountLevel(out, level) == Cardinality({ i \in 1 .. Len(out) : out[i].level = level })

\* C1: every call invokes the transport with its own request descriptor, at
\* most max_tries times (the resolved, clamped limit, which is >= 1) and, once
\* it is past its first attempt, at least once.
C1_TransportCalls ==
    \A p \in Positions :
        LET f == FrameAt(p)
        IN  /\ f.max_tries >= 1
            /\ f.sends <= f.max_tries
            /\ f.sends = f.tries
            /\ f.wire \subseteq {Descriptor(f)}
            /\ (f.pc # "loop" \/ f.tries > 0) => (f.sends >= 1 /\ f.wire # {})

C1_Witness ==
    \E p \in Positions :
        LET f == FrameAt(p)
        IN  f.pc = "done" /\ f.max_tries >= 2 /\ f.sends = f.max_tries

\* C2: when the predicate accepts the response of attempt k the loop is over
\* at attempt k: the frame is at the code after the loop (or has returned),
\* nothing was slept and no authentication cycle was run after that response,
\* no nested call is in progress, the response kept is that of the frame's
\* last transport call, and tries = k is the number of transport calls made.
C2_StopsOnSuccess ==
    \A p \in Positions :
        LET f == FrameAt(p)
        IN  /\ f.accepted <=> (f.tries >= 1 /\ Expected(f.expected, f.resp))
            /\ f.accepted =>
                  /\ f.pc \in {"end", "ret", "done"}
                  /\ IsTop(p)
                  /\ f.since = <<>>
                  /\ f.resp.id = f.own
                  /\ f.tries = f.sends
                  /\ f.tries <= f.max_tries
                  /\ f.nslept = f.tries - 1

C2_Witness ==
    \E p \in Positions :
        LET f == FrameAt(p)
        IN  f.pc = "done" /\ f.accepted /\ f.tries >= 2 /\ f.expected = "Is200"

\* C3: a call that exhausted its attempts (the predicate rejected each of the
\* max_tries responses, none of them a 401 or a 429) has slept max_tries - 1
\* times.
C3_SleepsBetweenAttemptsOnly ==
    \A p \in Positions :
        LET f == FrameAt(p)
        IN  (/\ f.pc \in {"else", "ret", "done"}
             /\ ~f.accepted
             /\ f.n401 = 0 /\ f.n429 = 0)
            => f.nslept = f.max_tries - 1

\* C4: after a rejected 429 whose Retry-After parses as a non-negative number
\* v, the sleep the frame asks for is v, in the try, and the sleep it has
\* completed before its next attempt (or before the loop's else) is one sleep
\* of v; a value time.sleep cannot take is asked for all the same and is never
\* replaced by the fixed delay.
C4_RetryAfterHonoured ==
    \A p \in Positions :
        LET f == FrameAt(p)
        IN  (Rejected(f) /\ f.resp.status_code = 429 /\ f.resp.retry_after # None) =>
              LET x == RetryAfter(f.resp)
              IN  /\ (x.kind = "finite" /\ x.val >= 0) =>
                        /\ f.pc \in {"sleep", "loop", "else", "ret", "done"}
                        /\ f.pc = "sleep" => (f.sleep_arg = x /\ f.since = <<>>)
                        /\ PastSleep(f) => f.since = <<SleepEvent(x.val)>>
                  /\ x.kind \in {"huge", "inf"} =>
                        /\ f.pc \in {"sleep", "raised"}
                        /\ f.pc = "sleep" => f.sleep_arg = x
                        /\ f.since = <<>>

C4_Witness ==
    \E p \in Positions :
        LET f == FrameAt(p)
        IN  /\ f.pc = "loop" /\ f.tries >= 1 /\ f.tries < f.max_tries
            /\ f.resp.status_code = 429 /\ f.resp.retry_after = Some("5")
            /\ f.delay_unexpected = 2
            /\ f.since = <<SleepEvent(5)>>

\* C5: after a rejected 429 whose Retry-After is absent or is not the text of
\* a number, the frame sleeps its fixed delay, exactly once, raises nothing,
\* and goes on to its next attempt when one is left.
C5_FallsBackToFixedDelay ==
    \A p \in Positions :
        LET f == FrameAt(p)
        IN  (/\ Rejected(f) /\ f.resp.status_code = 429
             /\ (f.resp.retry_after = None \/ RetryAfter(f.resp).kind = "error"))
            => /\ f.pc \in {"sleep", "loop", "else", "ret", "done"}
               /\ f.pc = "sleep" =>
                     (f.sleep_arg = Num(f.delay_unexpected) /\ f.since = <<>>)
               /\ PastSleep(f) => f.since = <<SleepEvent(f.delay_unexpected)>>
               /\ (PastSleep(f) /\ f.tries < f.max_tries) => f.pc = "loop"

C5_Witness ==
    \E p \in Positions :
        LET f == FrameAt(p)
        IN  /\ f.pc = "loop" /\ f.tries >= 1 /\ f.tries < f.max_tries
            /\ f.resp.status_code = 429 /\ f.resp.retry_after = Some("soon")
            /\ f.delay_unexpected = 2
            /\ f.since = <<SleepEvent(2)>>

\* C6: in request, after a rejected 401 the frame waits while exactly one
\* nested auth_request runs above it; when that call has returned the frame
\* sleeps its own fixed delay; only then, with the authentication cycle and
\* that one sleep behind it, is it at the head of the loop for the next
\* attempt.  Nothing else nests: a stack holds at most two frames.
C6_ReauthenticateThenSleep ==
    \A p \in Positions :
        LET f == FrameAt(p)
            t == p[1]
        IN  /\ Len(stack[t]) <= 2
            /\ p[2] = 2 => (f.fn = "auth_request" /\ f.given = NoArguments)
            /\ ~IsTop(p) => (f.pc \in {"auth", "raised"} /\ f.fn = "request")
            /\ (f.fn = "request" /\ Rejected(f) /\ f.resp.status_code = 401) =>
                  /\ f.pc \in {"auth", "sleep", "loop", "else", "ret", "done", "raised"}
                  /\ f.pc = "auth" => (~IsTop(p) /\ f.since = <<>>)
                  /\ f.pc = "sleep" =>
                        /\ IsTop(p)
                        /\ f.since = <<AuthEvent>>
                        /\ f.sleep_arg = Num(f.delay_unexpected)
                  /\ PastSleep(f) =>
                        /\ IsTop(p)
                        /\ f.since = <<AuthEvent, SleepEvent(f.delay_unexpected)>>

C6_Witness ==
    \E p \in Positions :
        LET f == FrameAt(p)
        IN  /\ f.fn = "request" /\ f.pc = "loop"
            /\ f.tries = 1 /\ f.tries < f.max_tries
            /\ f.resp.status_code = 401
            /\ f.since = <<AuthEvent, SleepEvent(2)>>
            /\ nsent[p[1]] >= 3

\* the attempt limit and the fixed delay a frame's loop was given, before any
\* clamping: the call's own argument, else the constructor's
RawTries(f) ==
    Resolve(f.given.max_tries,
            IF f.fn = "request" THEN ctor.max_tries ELSE ctor.auth_max_tries)

RawDelay(f) ==
    Resolve(f.given.delay_unexpected,
            IF f.fn = "request" THEN ctor.delay_unexpected
            ELSE ctor.auth_delay_unexpected)

\* the sleep after the frame's latest response takes its duration from the
\* response's Retry-After
ReadsRetryAfter(f) ==
    /\ f.resp.status_code = 429
    /\ f.resp.retry_after # None
    /\ RetryAfter(f.resp).kind # "error"

\* C7: a loop given an attempt limit of 0 or less, by the constructor or by
\* the call, for request or for auth_request, runs as with a limit of 1: one
\* transport call and no second iteration; a loop given a negative fixed delay
\* has fixed delay 0 and every sleep of it that is not a Retry-After sleep,
\* asked for or completed, lasts 0.
C7_LowInputsClamped ==
    \A p \in Positions :
        LET f == FrameAt(p)
        IN  /\ RawTries(f) <= 0 =>
                  /\ f.max_tries = 1
                  /\ f.sends <= 1
                  /\ f.pc = "loop" => f.tries = 0
                  /\ f.pc # "loop" => f.sends = 1
            /\ RawDelay(f) < 0 =>
                  /\ f.delay_unexpected = 0
                  /\ (f.pc = "sleep" /\ ~ReadsRetryAfter(f)) => f.sleep_arg = Num(0)
                  /\ \A i \in 1 .. Len(f.since) :
                        (f.since[i].ev = "sleep" /\ ~ReadsRetryAfter(f))
                            => f.since[i].d = 0

C7_Witness ==
    \E p \in Positions :
        LET f == FrameAt(p)
        IN  /\ f.pc = "done" /\ ~f.accepted
            /\ f.given.max_tries = None /\ RawTries(f) <= 0
            /\ RawDelay(f) < 0
            /\ f.sends = 1
            /\ f.since = <<SleepEvent(0)>>

\* C8: a call whose loop is over (the predicate accepted a response, or all
\* max_tries attempts were made) does not raise: it returns the response of
\* its own last transport call, and that is what its caller receives.
C8_ReturnsLastResponse ==
    \A p \in Positions :
        LET f == FrameAt(p)
        IN  (Ended(f) /\ (f.accepted \/ f.tries = f.max_tries)) =>
               /\ f.pc # "raised"
               /\ f.ret = Some(f.resp)
               /\ f.resp.id = f.own
               /\ f.pc = "done" => result[p[1]] = Some(f.resp)

\* C9: a call that is over has emitted exactly one warning if the predicate
\* rejected the response of each of its max_tries attempts, and none if it
\* accepted one.
C9_WarningIffExhausted ==
    \A p \in Positions :
        LET f == FrameAt(p)
        IN  Ended(f) =>
               CountLevel(f.out, "warning") =
                   (IF ~f.accepted /\ f.tries = f.max_tries THEN 1 ELSE 0)

\* C10: a call whose loop is over (on success and on exhaustion alike) has
\* emitted, when log was given, exactly one info, as its last diagnostic, and
\* the count in it is the number of transport calls the call made; when log
\* was not given it has emitted no info.
C10_InfoWhenLogGiven ==
    \A p \in Positions :
        LET f == FrameAt(p)
        IN  (Ended(f) /\ (f.accepted \/ f.tries = f.max_tries)) =>
               IF f.log # None
               THEN /\ CountLevel(f.out, "info") = 1
                    /\ f.out[Len(f.out)] = Info(f.sends)
               ELSE CountLevel(f.out, "info") = 0

\* C11: the session defaults stored by the constructor are within range,
\* whatever it was given, and stay so: both attempt limits are >= 1 and both
\* fixed delays are >= 0.
C11_StoredDefaultsClamped ==
    /\ session.max_tries >= 1
    /\ session.auth_max_tries >= 1
    /\ session.delay_unexpected >= 0
    /\ session.auth_delay_unexpected >= 0

\* C12: no call changes a session default: at every moment, before, during
\* and after calls with or without overrides and nested authentication, the
\* stored method, url, kwargs, predicates, attempt limits and delays are what
\* the constructor stored.
C12_SessionUnchanged == session = InitSession(ctor)

C12_Witness ==
    \E p \in Positions :
        LET f == FrameAt(p)
        IN  /\ f.fn = "request" /\ f.pc = "done"
            /\ f.given.delay_unexpected # None
            /\ f.auths >= 1

\* C13: the authentication cycle nested in request runs on the session's
\* authentication defaults alone: its method, url, kwargs and predicate are
\* those the constructor was given, its attempt limit and fixed delay are the
\* constructor's authentication pair (clamped), it gives up after exactly that
\* many attempts and its fixed sleeps last that delay, whatever method, url,
\* kwargs and overrides the outer call was given.
C13_NestedUsesSessionDefaults ==
    \A p \in Positions :
        LET g == FrameAt(p)
        IN  p[2] = 2 =>
              /\ g.fn = "auth_request"
              /\ g.method = ctor.method /\ g.url = ctor.url
              /\ g.kwargs = ctor.kwargs
              /\ g.expected = ctor.auth_expected
              /\ g.max_tries = Max(1, ctor.auth_max_tries)
              /\ g.delay_unexpected = Max(0, ctor.auth_delay_unexpected)
              /\ g.log = None
              /\ g.wire \subseteq
                    {[method |-> ctor.method, url |-> ctor.url, kwargs |-> ctor.kwargs]}
              /\ g.sends <= Max(1, ctor.auth_max_tries)
              /\ (g.pc \in {"else", "ret", "done"} /\ ~g.accepted) =>
                    g.sends = Max(1, ctor.auth_max_tries)
              /\ (g.pc = "sleep" /\ ~ReadsRetryAfter(g)) =>
                    g.sleep_arg = Num(Max(0, ctor.auth_delay_unexpected))

C13_Witness ==
    \E t \in Threads :
        /\ Len(stack[t]) = 2
        /\ stack[t][1].given.max_tries = Some(1)
        /\ stack[t][1].max_tries = 1
        /\ stack[t][2].sends = 2
        /\ stack[t][2].pc = "sleep"

\* C14: auth_request hands the transport the session's kwargs overlaid by the
\* call's kwargs: every key of either is passed, a key of the call carries the
\* call's value, a key of the session alone carries the session's value;
\* request hands the transport exactly the call's kwargs, no session key
\* added.
C14_KwargsMerging ==
    \A p \in Positions :
        LET f == FrameAt(p)
            sent == { d.kwargs : d \in f.wire }
        IN  /\ f.sends >= 1 => sent # {}
            /\ \A k \in sent :
                  IF f.fn = "auth_request"
                  THEN /\ DOMAIN k = DOMAIN ctor.kwargs \cup DOMAIN f.given.kwargs
                       /\ \A key \in DOMAIN f.given.kwargs : k[key] = f.given.kwargs[key]
                       /\ \A key \in DOMAIN ctor.kwargs \ DOMAIN f.given.kwargs :
                             k[key] = ctor.kwargs[key]
                  ELSE k = f.given.kwargs

C14_Witness ==
    \E p \in Positions :
        /\ FrameAt(p).fn = "auth_request" /\ FrameAt(p).pc = "done"
        /\ FrameAt(p).given.kwargs = [data |-> "other"]
        /\ FrameAt(p).wire =
              {[method |-> "POST", url |-> "/authentication", kwargs |-> [data |-> "other"]]}
        /\ ctor.kwargs = [data |-> "cred"]

\* C15: whatever the Retry-After of a rejected 429 is, the call raises
\* nothing: a value that is not the text of a number, or that time.sleep cannot
\* take (negative, nan, inf, beyond the platform's range), leads to one sleep
\* of the fixed delay, and the loop goes on to its next attempt or to its end.
C15_RetryAfterNeverRaises ==
    \A p \in Positions :
        LET f == FrameAt(p)
        IN  (Rejected(f) /\ f.resp.status_code = 429 /\ f.resp.retry_after # None) =>
              LET x == RetryAfter(f.resp)
              IN  /\ f.pc # "raised"
                  /\ f.exc = None
                  /\ (x.kind # "finite" \/ x.val < 0) =>
                        /\ f.pc = "sleep" => f.sleep_arg \in {x, Num(f.delay_unexpected)}
                        /\ PastSleep(f) => f.since = <<SleepEvent(f.delay_unexpected)>>
                        /\ (PastSleep(f) /\ f.tries < f.max_tries) => f.pc = "loop"

\* C16: the way the nested authentication cycle ends does not change the
\* outer loop of request: a nested cycle that succeeded, or that has spent all
\* of its attempts, returns to the outer call; the outer call then sleeps its
\* own fixed delay and goes to its next attempt while one is left; so an outer
\* call that never saw a 429 ends only by an accepted response or with all of
\* its max_tries attempts made.
C16_NestedOutcomeIgnored ==
    \A p \in Positions :
        LET f == FrameAt(p)
            t == p[1]
        IN  f.fn = "request" =>
              /\ ~IsTop(p) =>
                    LET g == stack[t][p[2] + 1]
                    IN  (g.accepted \/ (g.tries = g.max_tries /\ g.pc # "sleep")) =>
                          /\ g.pc \in {"end", "else", "ret"}
                          /\ f.pc = "auth"
              /\ (IsTop(p) /\ Rejected(f) /\ f.resp.status_code = 401) =>
                    /\ f.pc = "sleep" => f.sleep_arg = Num(f.delay_unexpected)
                    /\ (PastSleep(f) /\ f.tries < f.max_tries) => f.pc = "loop"
              /\ (Ended(f) /\ f.n429 = 0) => (f.accepted \/ f.tries = f.max_tries)

\* the same loop state in the other function
Twin(f) == [f EXCEPT !.fn = IF @ = "request" THEN "auth_request" ELSE "request"]

\* the responses the server may send next that are not a 401
Without401(t) ==
    { [status_code |-> r.status_code, retry_after |-> r.retry_after,
       id |-> nsent[t] + 1] : r \in { x \in Repertoire(server) : x.status_code # 401 } }

\* C17: with the same resolved predicate, attempt limit and fixed delay, and
\* responses none of which is a 401, request and auth_request run the same
\* loop: from every state a loop reaches, each step of one function (the
\* transport's response taken, the sleep made or the exception raised, the
\* diagnostics and the response returned) is the step of the other function
\* from the same state, so both make the same transport calls and sleeps,
\* count the same attempts, warn alike and return the same response.
C17_SameLoopWithout401 ==
    \A p \in Positions :
        LET f == FrameAt(p)
        IN  (f.n401 = 0 /\ f.resp.status_code # 401) =>
              /\ f.pc = "loop" =>
                    \A resp \in Without401(p[1]) :
                        Receive(Twin(f), resp) = Twin(Receive(f, resp))
              /\ f.pc = "sleep" =>
                    /\ SleepStatement(Twin(f)) = SleepStatement(f)
                    /\ SleepStatement(f).exc = None => Slept(Twin(f)) = Twin(Slept(f))
              /\ f.pc \in {"end", "else"} =>
                    /\ Diagnostics(Twin(f)) = Diagnostics(f)
                    /\ Finished(Twin(f)) = Twin(Finished(f))
              /\ AfterSleep(Twin(f)) = AfterSleep(f)

C17_Witness ==
    \E p \in Positions :
        LET f == FrameAt(p)
        IN  /\ f.fn = "request" /\ f.pc = "done"
            /\ f.n401 = 0 /\ f.n429 >= 1
            /\ f.resp.status_code = 429 /\ f.resp.retry_after = Some("5")
            /\ ~f.accepted /\ f.tries >= 2
            /\ CountLevel(f.out, "warning") = 1

\* C18: two callers on one client are not kept apart: both may be inside
\* their nested authentication cycle at once; yet in every interleaving each
\* frame counts its own transport calls only (tries is the number of calls it
\* made itself, and the responses it holds are its own thread's) and stops at
\* its own resolved limit.
C18_OwnCounterAndBound ==
    \A p \in Positions :
        LET f == FrameAt(p)
            t == p[1]
        IN  /\ f.tries = f.sends
            /\ f.tries <= f.max_tries
            /\ f.max_tries = Max(1, RawTries(f))
            /\ f.own <= nsent[t]
            /\ f.tries >= 1 => f.resp.id = f.own
            /\ (f.pc \in {"else", "ret", "done"} /\ ~f.accepted) => f.tries = f.max_tries
            /\ Len(stack[t]) <= 2

C18_Witness ==
    \A t \in Threads :
        /\ Len(stack[t]) = 2
        /\ stack[t][1].fn = "request" /\ stack[t][1].pc = "auth"
        /\ stack[t][1].resp.status_code = 401
        /\ stack[t][2].pc \in {"loop", "sleep"}
        /\ stack[t][2].tries >= 1

\* the most transport calls a top-level call may make
TransportBudget(t) ==
    LET f == stack[t][1]
    IN  IF f.fn = "request"
        THEN Max(1, RawTries(f)) * (1 + Max(1, ctor.auth_max_tries))
        ELSE Max(1, RawTries(f))

\* the bounds on nesting and on transport calls, and a call under way has a
\* next step
BoundedNestingAndCalls ==
    \A t \in Threads :
        stack[t] # <<>> =>
          /\ Len(stack[t]) <= 2
          /\ \A i \in 1 .. Len(stack[t]) :
                LET f == stack[t][i]
                IN  /\ f.fn = "auth_request" =>
                          /\ f.pc # "auth" /\ f.auths = 0
                          /\ i = Len(stack[t])
                          /\ (Rejected(f) /\ f.resp.status_code = 401) =>
                                /\ f.pc = "sleep" => f.sleep_arg = Num(f.delay_unexpected)
                                /\ PastSleep(f) => f.since = <<SleepEvent(f.delay_unexpected)>>
                    /\ i = 2 => stack[t][1].fn = "request"
          /\ nsent[t] <= TransportBudget(t)
          /\ status[t] = "running" =>
                Top(t).pc \in {"loop", "sleep", "end", "else", "ret"}

CallUnderWay == \E t \in Threads : status[t] = "running"

\* C19: auth_request never starts a nested cycle, not even on a 401, after
\* which it sleeps its fixed delay; so calls nest one level deep at most (a
\* request and the auth_request it started); a request call makes at most
\* max_tries * (1 + authentication max_tries) transport calls in all, an
\* auth_request call at most its max_tries; and, every transport call
\* returning, a call under way ends (by returning or by raising).
C19_BoundedNestingAndCalls ==
    /\ []BoundedNestingAndCalls
    /\ CallUnderWay ~> ~CallUnderWay

C19_Witness ==
    \E t \in Threads :
        /\ status[t] = "returned"
        /\ stack[t][1].fn = "request"
        /\ stack[t][1].max_tries >= 2
        /\ Max(1, ctor.auth_max_tries) >= 2
        /\ nsent[t] = TransportBudget(t)

\* C20: in a request call the nested authentication cycles started are as
\* many as the attempts the predicate rejected with status 401, the final
\* attempt included: a rejected 401 on attempt max_tries is still followed by
\* an authentication cycle and a sleep before the call ends; a 401 the
\* predicate accepts starts none, and auth_request starts none at all.
C20_OneCyclePerRejected401 ==
    \A p \in Positions :
        LET f == FrameAt(p)
        IN  /\ f.fn = "request" => f.auths = f.n401
            /\ f.fn = "auth_request" => f.auths = 0
            /\ f.pc = "auth" => ~IsTop(p)
            /\ ~IsTop(p) => f.pc \in {"auth", "raised"}
            /\ (f.fn = "request" /\ Rejected(f) /\ f.resp.status_code = 401
                /\ f.tries = f.max_tries /\ f.pc \in {"else", "ret", "done"}) =>
                  f.since = <<AuthEvent, SleepEvent(f.delay_unexpected)>>
            /\ (f.accepted /\ f.resp.status_code = 401) =>
                  (f.since = <<>> /\ IsTop(p) /\ f.pc \in {"end", "ret", "done"})

C20_Witness ==
    \E p \in Positions :
        LET f == FrameAt(p)
        IN  /\ f.fn = "request" /\ f.pc = "done"
            /\ f.max_tries >= 2 /\ f.tries = f.max_tries
            /\ f.n401 = f.max_tries /\ f.auths = f.max_tries
            /\ f.since = <<AuthEvent, SleepEvent(2)>>

====
